---- MODULE Spec2Model ----
(***************************************************************************)
(* Model of traffic_routing_system.py: the TrafficGraph store (nodes,      *)
(* adjacency, coordinates), its mutations (add_edge, update_traffic), and  *)
(* the two solvers (dijkstra, a_star) with reconstruct_path.               *)
(*                                                                         *)
(* Numbers.  Edge weights and accumulated costs are integers.  float('inf')*)
(* is the integer Inf, larger than every finite cost the model can build.  *)
(* math.hypot(dx, dy) is irrational in general, so an f-score is kept      *)
(* exactly as a pair [i, sq] standing for the real number i + sqrt(sq),    *)
(* and compared exactly (NumLt).                                           *)
(*                                                                         *)
(* Python's None is the string "None" where a node is expected (parents)   *)
(* and the empty sequence where a path is expected (a returned path is     *)
(* never empty: it always holds end_node).                                 *)
(*                                                                         *)
(* Library_management_System.py is modelled beside it: the Library object  *)
(* (catalog, members), add_book, register_member, borrow_book and          *)
(* return_book.  Titles, authors and names are only printed and are left   *)
(* out.  A Book or Member is a mutable object: the catalog keeps the very  *)
(* object that add_book was first given.                                   *)
(***************************************************************************)
EXTENDS Integers, Sequences, FiniteSets, TLC

\* ---------------------------------------------------------------- bounds
\* Largest number of directed edges the adjacency may hold in Spec.
MaxEdges == 3
\* Longest edge list handed to the constructor in Spec.
MaxInitEdges == 1
\* Longest edge list handed to the constructor in SpecVis.
MaxVisEdges == 3
\* Longest edge list handed to the constructor in SpecTwice.
MaxTwiceEdges == 2
\* Largest number of directed edges the adjacency may hold in SpecStore.
MaxStoreEdges == 3
\* Longest edge list handed to the constructor in SpecStore.
MaxStoreInit == 1
\* Longest edge list handed to the constructor in SpecCtor.
MaxCtorEdges == 2
\* Largest number of directed edges the adjacency may hold in SpecRun.
MaxRunEdges == 3
\* Most iterations of a solver's while loop that SpecRun follows.
MaxTrace == 12
\* Largest number of directed edges the adjacency may hold in SpecLive.
MaxLiveEdges == 2
\* Most iterations of a solver's while loop that SpecLive follows.
MaxLiveTrace == 6
\* Largest total_copies of a Book handed to add_book.
MaxCopies == 1
\* Largest total_copies a catalog entry may grow to.
MaxTotal == 2

\* float('inf')
Inf == 1000000

None == "None"

\* Python orders the node ids (strings) lexicographically; tuples in the heap
\* fall back to this order when their keys are equal.
Names == <<"A", "B", "C", "D", "E", "F", "G", "H", "Z">>

Rank(n) == CHOOSE i \in 1..Len(Names) : Names[i] = n

Min(S) == CHOOSE x \in S : \A y \in S : x <= y

\* ------------------------------------------------------------ real numbers
\* The real number i + sqrt(sq), sq >= 0.
Num(i) == [i |-> i, sq |-> 0]

\* math.hypot(dx, dy) = sqrt(dx^2 + dy^2)
hypot(dx, dy) == [i |-> 0, sq |-> dx * dx + dy * dy]

\* Variant: the f-score without the cost so far (greedy best-first).
NumAdd_greedy(k, x) == x

\* int + float
NumAdd(k, x) == [i |-> k + x.i, sq |-> x.sq]

\* a < b for a = a.i + sqrt(a.sq), b = b.i + sqrt(b.sq), decided exactly:
\* with d = a.i - b.i the question is d + sqrt(a.sq) < sqrt(b.sq).
NumLt(a, b) ==
  LET d == a.i - b.i
      c == b.sq - a.sq - d * d
      e == a.sq - b.sq - d * d
  IN IF d >= 0
       THEN c > 0 /\ 4 * d * d * a.sq < c * c
       ELSE e < 0 \/ e * e < 4 * d * d * b.sq

\* ------------------------------------------------------------------ dicts
EmptyDict == [x \in {} |-> 0]

\* d[k] = val
SetKey(d, k, val) == [x \in DOMAIN d \cup {k} |-> IF x = k THEN val ELSE d[x]]

\* d.get(k, default)
Get(d, k, default) == IF k \in DOMAIN d THEN d[k] ELSE default

\* ------------------------------------------------------------ TrafficGraph
\* Variant: only u is tested.
add_edge_unchecked(graph, u, v, weight) ==
  IF u \in DOMAIN graph
    THEN [x \in DOMAIN graph |->
            IF x = u THEN [y \in DOMAIN graph[x] \cup {v} |->
                             IF y = v THEN weight ELSE graph[x][y]]
            ELSE graph[x]]
    ELSE graph

\* Variant: the reverse entry is set as well.
add_edge_both(graph, u, v, weight) ==
  IF u \in DOMAIN graph /\ v \in DOMAIN graph
    THEN [x \in DOMAIN graph |->
            IF x = u THEN [y \in DOMAIN graph[x] \cup {v} |->
                             IF y = v THEN weight ELSE graph[x][y]]
            ELSE IF x = v THEN [y \in DOMAIN graph[x] \cup {u} |->
                             IF y = u THEN weight ELSE graph[x][y]]
            ELSE graph[x]]
    ELSE graph

\* add_edge: self.graph[u][v] = weight when both u and v are keys of
\* self.graph, otherwise only a warning is printed.
add_edge(graph, u, v, weight) ==
  IF u \in DOMAIN graph /\ v \in DOMAIN graph
    THEN [graph EXCEPT ![u] = SetKey(@, v, weight)]
    ELSE graph

\* Variant: the reverse add_edge call is left out.
RECURSIVE build_forward(_, _, _)
build_forward(graph, edges, k) ==
  IF k > Len(edges) THEN graph
  ELSE LET e == edges[k]
       IN build_forward(add_edge(graph, e[1], e[2], e[3]), edges, k + 1)

\* The constructor's loop: add_edge(u, v, w) then add_edge(v, u, w) for each
\* edge, in list order.
RECURSIVE build(_, _, _)
build(graph, edges, k) ==
  IF k > Len(edges) THEN graph
  ELSE LET e == edges[k]
       IN build(add_edge(add_edge(graph, e[1], e[2], e[3]), e[2], e[1], e[3]),
                edges, k + 1)

\* TrafficGraph.__init__
TrafficGraph(ns, edges, coords) ==
  [nodes |-> ns,
   coordinates |-> coords,
   graph |-> build([n \in ns |-> EmptyDict], edges, 1)]

\* Variant: the new weight is not stored.
update_forward_skip(graph, u, v, new_weight) == graph

\* Variant: the weight is stored with its sign flipped.
update_forward_negated(graph, u, v, new_weight) ==
  IF u \in DOMAIN graph /\ v \in DOMAIN graph[u]
    THEN [x \in DOMAIN graph |->
            IF x = u THEN [y \in DOMAIN graph[x] |->
                             IF y = v THEN 0 - new_weight ELSE graph[x][y]]
            ELSE graph[x]]
    ELSE graph

\* Variant: the entry is set whether or not it exists.
update_forward_upsert(graph, u, v, new_weight) ==
  IF u \in DOMAIN graph
    THEN [x \in DOMAIN graph |->
            IF x = u THEN [y \in DOMAIN graph[x] \cup {v} |->
                             IF y = v THEN new_weight ELSE graph[x][y]]
            ELSE graph[x]]
    ELSE graph

\* update_traffic's "Update u -> v" part: only an existing entry is set.
update_forward(graph, u, v, new_weight) ==
  IF v \in DOMAIN Get(graph, u, EmptyDict)
    THEN [graph EXCEPT ![u] = SetKey(@, v, new_weight)]
    ELSE graph

\* Variant: direction is ignored, both entries are updated.
update_traffic_both(graph, u, v, new_weight, direction) ==
  update_forward(update_forward(graph, u, v, new_weight), v, u, new_weight)

\* update_traffic
update_traffic(graph, u, v, new_weight, direction) ==
  LET g1 == update_forward(graph, u, v, new_weight)
  IN IF direction = "both"
       THEN update_forward(g1, v, u, new_weight)
       ELSE g1

\* get_neighbors: self.graph.get(node, {}).items(), as the dict neighbor -> weight
get_neighbors(graph, node) == Get(graph, node, EmptyDict)

\* heuristic
heuristic(coords, node, goal) ==
  IF node \notin DOMAIN coords \/ goal \notin DOMAIN coords
    THEN Num(0)
    ELSE hypot(coords[goal][1] - coords[node][1], coords[goal][2] - coords[node][2])

\* -------------------------------------------------------- reconstruct_path
\* The while loop: append current, follow parents.get(current), until None.
\* acc is the list built so far (goal first).  A predecessor map with a cycle
\* never ends the loop; the model reports it as the path <<"LOOP">>.
RECURSIVE walk_back(_, _, _)
walk_back(parents, current, acc) ==
  IF current = None THEN acc
  ELSE IF Len(acc) > Cardinality(DOMAIN parents) + 1 THEN <<"LOOP">>
  ELSE walk_back(parents, Get(parents, current, None), Append(acc, current))

\* Variant: the list is returned goal first.
Reverse_forgotten(s) == s

Reverse(s) == [i \in 1..Len(s) |-> s[Len(s) + 1 - i]]

reconstruct_path(parents, current) == Reverse(walk_back(parents, current, <<>>))

\* -------------------------------------------------------------------- heap
\* Variant: the order inverted (the largest tuple is popped).
TupleLt_inverted(e1, e2) ==
  \/ e1[1] > e2[1]
  \/ (e1[1] = e2[1] /\ Rank(e1[2]) > Rank(e2[2]))

\* Python compares the heap's tuples (key, node): by key, then by node.
\* dijkstra's keys are integers.
TupleLt(e1, e2) ==
  \/ e1[1] < e2[1]
  \/ (e1[1] = e2[1] /\ Rank(e1[2]) < Rank(e2[2]))

\* a_star's keys are f-scores.
TupleLtFloat(e1, e2) ==
  \/ NumLt(e1[1], e2[1])
  \/ (~NumLt(e2[1], e1[1]) /\ Rank(e1[2]) < Rank(e2[2]))

\* Variant: a first-in first-out queue in place of the heap.
heappop_fifo(pq) == 1

\* heapq.heappop returns a smallest tuple of the heap; the heap is kept here
\* as the list of its tuples, and this is the index of the one popped.
heappop(pq) ==
  CHOOSE i \in 1..Len(pq) : \A j \in 1..Len(pq) : ~TupleLt(pq[j], pq[i])

heappop_float(pq) ==
  CHOOSE i \in 1..Len(pq) : \A j \in 1..Len(pq) : ~TupleLtFloat(pq[j], pq[i])

RemoveAt(s, i) == SubSeq(s, 1, i - 1) \o SubSeq(s, i + 1, Len(s))

\* The nodes of S as a list, in node order.
RECURSIVE SetToSeq(_)
SetToSeq(S) ==
  IF S = {} THEN <<>>
  ELSE LET m == CHOOSE x \in S : \A y \in S : Rank(x) <= Rank(y)
       IN <<m>> \o SetToSeq(S \ {m})

\* Variant: cost 0 in place of inf.
not_found_zero(fr) == [fr EXCEPT !.pc = "return", !.path = <<>>, !.cost = 0]

\* "return None, float('inf')" after the while loop of either solver.
not_found(fr) == [fr EXCEPT !.pc = "return", !.path = <<>>, !.cost = Inf]

\* ---------------------------------------------------------------- dijkstra
\* The locals of one dijkstra call before the while loop.
dijkstra_start(G, start_node) ==
  [pc |-> "loop",
   priority_queue |-> << <<0, start_node>> >>,
   distances |-> [n \in G.nodes \cup {start_node} |-> IF n = start_node THEN 0 ELSE Inf],
   parents |-> [n \in G.nodes |-> None],
   path |-> <<>>,
   cost |-> Inf]

\* Variant: no entry is ever taken for stale.
IsStale_never(current_distance, best) == FALSE

\* Variant: >= in place of >.
IsStale_ge(current_distance, best) == current_distance >= best

\* "if current_distance > distances[current_node]: continue"
IsStale(current_distance, best) == current_distance > best

\* Variant: <= in place of <.
Shorter_le(distance, known) == distance <= known

\* "if distance < distances[neighbor]"
Shorter(distance, known) == distance < known

\* Variant: parents[neighbor] is written only the first time the neighbor is
\* reached.
dijkstra_relax_first_parent(G, fr, current_distance, current_node) ==
  LET nbrs == get_neighbors(G.graph, current_node)
      better == {v \in DOMAIN nbrs \cap DOMAIN fr.distances :
                   Shorter(current_distance + nbrs[v], fr.distances[v])}
      pushed == SetToSeq(better)
  IN [fr EXCEPT
        !.distances = [n \in DOMAIN @ |->
                         IF n \in better THEN current_distance + nbrs[n] ELSE @[n]],
        !.parents = [n \in DOMAIN @ \cup better |->
                         IF n \in better /\ Get(@, n, None) = None
                           THEN current_node ELSE @[n]],
        !.priority_queue = @ \o [k \in 1..Len(pushed) |->
                         <<current_distance + nbrs[pushed[k]], pushed[k]>>]]

\* The for loop over get_neighbors(current_node).  Each neighbor occurs once
\* and its test reads only distances[neighbor] and the local
\* current_distance, so the iterations do not influence each other and the
\* dict's iteration order decides only the order of the pushes, which
\* heappop does not observe.  The pushes are appended in node order.
\* distances[neighbor] raises KeyError for a neighbor that is no key.
dijkstra_relax(G, fr, current_distance, current_node) ==
  LET nbrs == get_neighbors(G.graph, current_node)
      better == {v \in DOMAIN nbrs \cap DOMAIN fr.distances :
                   Shorter(current_distance + nbrs[v], fr.distances[v])}
      pushed == SetToSeq(better)
  IN IF ~(DOMAIN nbrs \subseteq DOMAIN fr.distances)
       THEN [fr EXCEPT !.pc = "raise"]
       ELSE [fr EXCEPT
               !.distances = [n \in DOMAIN @ |->
                                IF n \in better THEN current_distance + nbrs[n] ELSE @[n]],
               !.parents = [n \in DOMAIN @ \cup better |->
                                IF n \in better THEN current_node ELSE @[n]],
               !.priority_queue = @ \o [k \in 1..Len(pushed) |->
                                <<current_distance + nbrs[pushed[k]], pushed[k]>>]]

\* One iteration of "while priority_queue", or the return after it.
dijkstra_step(G, end_node, fr) ==
  IF fr.priority_queue = <<>>
    THEN not_found(fr)
  ELSE
    LET i == heappop(fr.priority_queue)
        current_distance == fr.priority_queue[i][1]
        current_node == fr.priority_queue[i][2]
        pq == RemoveAt(fr.priority_queue, i)
    IN IF IsStale(current_distance, fr.distances[current_node])
         THEN [fr EXCEPT !.priority_queue = pq]
       ELSE IF current_node = end_node
         THEN [fr EXCEPT !.priority_queue = pq,
                         !.pc = "return",
                         !.path = reconstruct_path(fr.parents, end_node),
                         !.cost = fr.distances[end_node]]
       ELSE dijkstra_relax(G, [fr EXCEPT !.priority_queue = pq],
                           current_distance, current_node)

RECURSIVE dijkstra_loop(_, _, _)
dijkstra_loop(G, end_node, fr) ==
  IF fr.pc # "loop" THEN fr
  ELSE dijkstra_loop(G, end_node, dijkstra_step(G, end_node, fr))

\* dijkstra(graph, start_node, end_node): what the call returns.
dijkstra(G, start_node, end_node) ==
  LET fr == dijkstra_loop(G, end_node, dijkstra_start(G, start_node))
  IN [path |-> fr.path, cost |-> fr.cost, raised |-> fr.pc = "raise"]

\* ------------------------------------------------------------------ a_star
\* The locals of one a_star call before the while loop.
a_star_start(G, start_node, end_node) ==
  LET f0 == heuristic(G.coordinates, start_node, end_node)
  IN [pc |-> "loop",
      priority_queue |-> << <<f0, start_node>> >>,
      g_score |-> [n \in G.nodes \cup {start_node} |-> IF n = start_node THEN 0 ELSE Inf],
      f_score |-> [n \in G.nodes \cup {start_node} |-> IF n = start_node THEN f0 ELSE Num(Inf)],
      parents |-> [n \in G.nodes |-> None],
      path |-> <<>>,
      cost |-> Inf]

\* "if tentative_g_score < g_score[neighbor]"
Better(tentative_g_score, known) == tentative_g_score < known

\* The for loop over get_neighbors(current_node).  tentative_g_score reads
\* g_score[current_node], which an iteration changes only through a self-loop
\* of negative weight; with weights >= 0 the iterations are independent, as
\* in dijkstra_relax.
a_star_relax(G, end_node, fr, current_node) ==
  LET nbrs == get_neighbors(G.graph, current_node)
      g == fr.g_score[current_node]
      better == {v \in DOMAIN nbrs \cap DOMAIN fr.g_score :
                   Better(g + nbrs[v], fr.g_score[v])}
      pushed == SetToSeq(better)
      f(v) == NumAdd(g + nbrs[v], heuristic(G.coordinates, v, end_node))
  IN IF ~(DOMAIN nbrs \subseteq DOMAIN fr.g_score)
       THEN [fr EXCEPT !.pc = "raise"]
       ELSE [fr EXCEPT
               !.parents = [n \in DOMAIN @ \cup better |->
                                IF n \in better THEN current_node ELSE @[n]],
               !.g_score = [n \in DOMAIN @ |->
                                IF n \in better THEN g + nbrs[n] ELSE @[n]],
               !.f_score = [n \in DOMAIN @ |->
                                IF n \in better THEN f(n) ELSE @[n]],
               !.priority_queue = @ \o [k \in 1..Len(pushed) |->
                                <<f(pushed[k]), pushed[k]>>]]

\* One iteration of "while priority_queue", or the return after it.  There
\* is no staleness test: every popped entry is expanded.
a_star_step(G, end_node, fr) ==
  IF fr.priority_queue = <<>>
    THEN not_found(fr)
  ELSE
    LET i == heappop_float(fr.priority_queue)
        current_node == fr.priority_queue[i][2]
        pq == RemoveAt(fr.priority_queue, i)
    IN IF current_node = end_node
         THEN [fr EXCEPT !.priority_queue = pq,
                         !.pc = "return",
                         !.path = reconstruct_path(fr.parents, end_node),
                         !.cost = fr.g_score[end_node]]
       ELSE a_star_relax(G, end_node, [fr EXCEPT !.priority_queue = pq], current_node)

RECURSIVE a_star_loop(_, _, _)
a_star_loop(G, end_node, fr) ==
  IF fr.pc # "loop" THEN fr
  ELSE a_star_loop(G, end_node, a_star_step(G, end_node, fr))

\* a_star(graph, start_node, end_node): what the call returns.
a_star(G, start_node, end_node) ==
  LET fr == a_star_loop(G, end_node, a_star_start(G, start_node, end_node))
  IN [path |-> fr.path, cost |-> fr.cost, raised |-> fr.pc = "raise"]

\* -------------------------------------------------------------- demo data
\* __main__: NODES, INITIAL_EDGES, COORDINATES
NODES == {"A", "B", "C", "D", "E", "F", "G", "H"}

INITIAL_EDGES ==
  << <<"A", "B", 10>>, <<"A", "C", 1>>,
     <<"B", "D", 5>>, <<"B", "E", 2>>,
     <<"C", "F", 7>>, <<"C", "E", 3>>,
     <<"D", "G", 4>>,
     <<"E", "G", 1>>, <<"E", "F", 2>>,
     <<"F", "H", 15>>,
     <<"G", "H", 5>> >>

COORDINATES ==
  [n \in NODES |->
     CASE n = "A" -> <<0, 0>>
       [] n = "B" -> <<10, 10>>
       [] n = "C" -> <<0, 10>>
       [] n = "D" -> <<20, 10>>
       [] n = "E" -> <<10, 20>>
       [] n = "F" -> <<0, 25>>
       [] n = "G" -> <<20, 20>>
       [] n = "H" -> <<20, 30>>]

city_graph == TrafficGraph(NODES, INITIAL_EDGES, COORDINATES)

\* ----------------------------------------------------------------- Library
\* Book(title, author, isbn, total_copies)
Book(isbn, total_copies) ==
  [isbn |-> isbn, total_copies |-> total_copies, available_copies |-> total_copies,
   waiting_list |-> <<>>]

\* "self.max_borrow_limit = 3"
max_borrow_limit == 3

\* Member(name), with the eight characters uuid4 produced for it.
Member(member_id) ==
  [member_id |-> member_id, borrowed_books |-> <<>>, max_borrow_limit |-> max_borrow_limit]

\* Library()
Library == [catalog |-> EmptyDict, members |-> EmptyDict]

\* add_book(book) for a Book object the catalog does not hold.
add_book(lib, book) ==
  IF book.isbn \in DOMAIN lib.catalog
    THEN [lib EXCEPT !.catalog[book.isbn].total_copies = @ + book.total_copies,
                     !.catalog[book.isbn].available_copies = @ + book.available_copies]
    ELSE [lib EXCEPT !.catalog = SetKey(@, book.isbn, book)]

\* add_book(book) for the Book object that the catalog holds under isbn:
\* existing_book is book, so each += adds the field to itself.
add_book_held(lib, isbn) ==
  [lib EXCEPT !.catalog[isbn].total_copies = @ + @,
              !.catalog[isbn].available_copies = @ + @]

\* register_member(member)
register_member(lib, member) ==
  [lib EXCEPT !.members = SetKey(@, member.member_id, member)]

\* The early returns of borrow_book: book not found, member not found,
\* limit reached.
borrow_fails(lib, isbn, member_id) ==
  \/ isbn \notin DOMAIN lib.catalog
  \/ member_id \notin DOMAIN lib.members
  \/ Len(lib.members[member_id].borrowed_books) >= lib.members[member_id].max_borrow_limit

\* borrow_book(isbn, member_id)
borrow_book(lib, isbn, member_id) ==
  IF borrow_fails(lib, isbn, member_id) THEN lib
  ELSE IF lib.catalog[isbn].available_copies > 0
    THEN [lib EXCEPT !.catalog[isbn].available_copies = @ - 1,
                     !.members[member_id].borrowed_books = Append(@, isbn)]
  ELSE IF \A i \in 1..Len(lib.catalog[isbn].waiting_list) :
            lib.catalog[isbn].waiting_list[i] # member_id
    THEN [lib EXCEPT !.catalog[isbn].waiting_list = Append(@, member_id)]
  ELSE lib

\* The early returns of return_book: book or member not found, isbn not in
\* the member's borrowed_books.
return_fails(lib, isbn, member_id) ==
  \/ isbn \notin DOMAIN lib.catalog
  \/ member_id \notin DOMAIN lib.members
  \/ \A i \in 1..Len(lib.members[member_id].borrowed_books) :
       lib.members[member_id].borrowed_books[i] # isbn

\* list.remove(x): the first occurrence goes.
Remove(s, x) == RemoveAt(s, CHOOSE i \in 1..Len(s) : s[i] = x /\ \A j \in 1..(i - 1) : s[j] # x)

\* return_book(isbn, member_id)
return_book(lib, isbn, member_id) ==
  IF return_fails(lib, isbn, member_id) THEN lib
  ELSE [lib EXCEPT !.catalog[isbn].available_copies = @ + 1,
                   !.catalog[isbn].waiting_list = IF @ = <<>> THEN @ ELSE Tail(@),
                   !.members[member_id].borrowed_books = Remove(@, isbn)]

\* total_copies and available_copies of every book.
Counts(lib) ==
  [isbn \in DOMAIN lib.catalog |->
     <<lib.catalog[isbn].total_copies, lib.catalog[isbn].available_copies>>]

\* ------------------------------------------------------------------ state
VARIABLES
  nodes,        \* TrafficGraph.nodes
  graph,        \* TrafficGraph.graph: node -> (neighbor -> weight)
  coordinates,  \* TrafficGraph.coordinates: node -> <<x, y>>
  result,       \* what the caller holds from its last read of this graph
  frame,        \* the locals of the call in progress, or what the last call left behind
  hist,         \* history: the answer before, the last mutating call, the weights given
  library       \* the Library object: catalog (isbn -> Book), members (member_id -> Member)

vars == <<nodes, graph, coordinates, result, frame, hist, library>>

\* The TrafficGraph object.
self == [nodes |-> nodes, graph |-> graph, coordinates |-> coordinates]

\* neighbors and h hold what get_neighbors and heuristic returned.
NoResult ==
  [fn |-> "none", start |-> None, end |-> None, path |-> <<>>, cost |-> 0, raised |-> FALSE,
   neighbors |-> EmptyDict, h |-> Num(0)]

\* No call in progress, and none made yet.
NoFrame == [fn |-> "none", start_node |-> None, end_node |-> None, fr |-> [pc |-> "idle"]]

NoStore == [nodes |-> {}, graph |-> EmptyDict, coordinates |-> EmptyDict]

\* op is the mutating call logged, store the object as the call found it.
NoUpdate ==
  [op |-> "none", u |-> None, v |-> None, existed |-> FALSE, old |-> 0, new |-> 0,
   direction |-> None, store |-> NoStore]

\* negative: a weight below 0 was handed to the constructor, add_edge or
\* update_traffic.
\* trace: what the call in progress has extracted from its priority queue so
\* far, one record per iteration of its while loop.
\* No Library call made yet.  op is the last call, failed tells that it took
\* an early return, and before holds the counts of every book as a failed
\* call found them.
NoLedger == [op |-> "none", failed |-> FALSE, before |-> EmptyDict]

NoHist ==
  [before |-> NoResult, update |-> NoUpdate, negative |-> FALSE, trace |-> <<>>,
   ledger |-> NoLedger]

\* The program that routes traffic builds no Library.
NoLibrary == Library

\* ----------------------------------------------------------------- inputs
\* The node set of the small graphs, and an id that is no node of them.
SmallNodes == {"A", "B", "C"}

Unknown == "Z"

Weights == {0, 1, 2}

Directions == {"forward", "both"}

\* Coordinate maps of the small graphs: none at all, three points on a line,
\* a triangle with irrational distances, and a map that lacks B.
CoordChoices ==
  { EmptyDict,
    [n \in SmallNodes |-> CASE n = "A" -> <<0, 0>> [] n = "B" -> <<1, 0>> [] n = "C" -> <<2, 0>>],
    [n \in SmallNodes |-> CASE n = "A" -> <<0, 0>> [] n = "B" -> <<1, 1>> [] n = "C" -> <<0, 2>>],
    [n \in {"A", "C"} |-> CASE n = "A" -> <<0, 0>> [] n = "C" -> <<0, 2>>] }

\* Edge lists of at most k edges (u, v, weight) over the ids S.
EdgeLists(S, k) == UNION {[1..n -> S \X S \X Weights] : n \in 0..k}

EdgeCount(g) == Cardinality({e \in (DOMAIN g) \X (DOMAIN g) : e[2] \in DOMAIN g[e[1]]})

\* ---------------------------------------------------------------- actions
\* Variant: the start node is given a key in the adjacency
\* (self.graph.setdefault(start_node, {})) before the search.
Query_setdefault(fn, start, end) ==
  LET r == IF fn = "dijkstra" THEN dijkstra(self, start, end) ELSE a_star(self, start, end)
  IN /\ result = NoResult
     /\ result' = [NoResult EXCEPT !.fn = fn, !.start = start, !.end = end,
                     !.path = r.path, !.cost = r.cost, !.raised = r.raised]
     /\ graph' = [n \in DOMAIN graph \cup {start} |-> Get(graph, n, EmptyDict)]
     /\ UNCHANGED <<nodes, coordinates, frame>>

\* A caller's dijkstra(city_graph, start, end) or a_star(...): the graph is
\* only read.  The caller asks once it holds no answer about the graph as it
\* is: a second query would start from the same store and the same fresh
\* locals, whatever was asked before.
Query(fn, start, end) ==
  LET r == IF fn = "dijkstra" THEN dijkstra(self, start, end) ELSE a_star(self, start, end)
  IN /\ result = NoResult
     /\ result' = [NoResult EXCEPT !.fn = fn, !.start = start, !.end = end,
                     !.path = r.path, !.cost = r.cost, !.raised = r.raised]
     /\ UNCHANGED <<nodes, graph, coordinates, frame>>

Dijkstra ==
  \E start \in nodes \cup {Unknown}, end \in nodes \cup {Unknown} :
    Query("dijkstra", start, end) /\ UNCHANGED <<hist, library>>

AStar ==
  \E start \in nodes \cup {Unknown}, end \in nodes \cup {Unknown} :
    Query("a_star", start, end) /\ UNCHANGED <<hist, library>>

\* A caller's city_graph.get_neighbors(node)
GetNeighbors ==
  \E node \in nodes \cup {Unknown} :
    /\ result = NoResult
    /\ result' = [NoResult EXCEPT !.fn = "get_neighbors", !.start = node,
                     !.neighbors = get_neighbors(graph, node)]
    /\ UNCHANGED <<nodes, graph, coordinates, frame, hist, library>>

\* A caller's city_graph.heuristic(node, goal)
Heuristic ==
  \E node \in nodes \cup {Unknown}, goal \in nodes \cup {Unknown} :
    /\ result = NoResult
    /\ result' = [NoResult EXCEPT !.fn = "heuristic", !.start = node, !.end = goal,
                     !.h = heuristic(coordinates, node, goal)]
    /\ UNCHANGED <<nodes, graph, coordinates, frame, hist, library>>

\* city_graph.add_edge(u, v, weight).  In Spec the caller builds and mutates
\* the graph and then asks: mutations come before the query.
Add(u, v, weight) ==
  /\ graph' = add_edge(graph, u, v, weight)
  /\ UNCHANGED <<nodes, coordinates, frame>>

AddEdge ==
  \E u \in nodes \cup {Unknown}, v \in nodes \cup {Unknown}, weight \in Weights :
    /\ result = NoResult
    /\ EdgeCount(add_edge(graph, u, v, weight)) <= MaxEdges
    /\ Add(u, v, weight)
    /\ UNCHANGED <<result, hist, library>>

\* city_graph.update_traffic(u, v, new_weight, direction)
Update(u, v, new_weight, direction) ==
  /\ graph' = update_traffic(graph, u, v, new_weight, direction)
  /\ UNCHANGED <<nodes, coordinates, frame>>

UpdateTraffic ==
  \E u \in nodes \cup {Unknown}, v \in nodes \cup {Unknown},
     new_weight \in Weights, direction \in Directions :
    /\ result = NoResult
    /\ Update(u, v, new_weight, direction)
    /\ UNCHANGED <<result, hist, library>>

\* The arguments of an update_traffic call, and the weight it found.
CallLog(op, u, v, weight, direction) ==
  [op |-> op, u |-> u, v |-> v,
   existed |-> v \in DOMAIN Get(graph, u, EmptyDict),
   old |-> Get(Get(graph, u, EmptyDict), v, 0),
   new |-> weight, direction |-> direction, store |-> self]

UpdateLog(u, v, new_weight, direction) ==
  CallLog("update_traffic", u, v, new_weight, direction)

\* ---------------------------------------------------------- small graphs
Init ==
  \E edges \in EdgeLists(SmallNodes \cup {Unknown}, MaxInitEdges), coords \in CoordChoices :
    /\ nodes = SmallNodes
    /\ graph = TrafficGraph(SmallNodes, edges, coords).graph
    /\ coordinates = coords
    /\ result = NoResult
    /\ frame = NoFrame
    /\ library = NoLibrary
    /\ hist = NoHist

Next == AddEdge \/ UpdateTraffic \/ Dijkstra \/ AStar \/ GetNeighbors \/ Heuristic

Spec == Init /\ [][Next]_vars

\* ---------------------------------------------------------- demo network
\* __main__: city_graph, queried between any two ids, and its one
\* update_traffic('C', 'E', 20) (direction defaults to 'both'), after which
\* run_simulation asks again: the answers printed before are dropped.
InitDemo ==
  /\ nodes = city_graph.nodes
  /\ graph = city_graph.graph
  /\ coordinates = city_graph.coordinates
  /\ result = NoResult
  /\ frame = NoFrame
  /\ library = NoLibrary
  /\ hist = NoHist

DemoUpdate ==
  /\ hist.update = NoUpdate
  /\ Update("C", "E", 20, "both")
  /\ result' = NoResult
  /\ UNCHANGED library
  /\ hist' = [hist EXCEPT !.update = UpdateLog("C", "E", 20, "both")]

NextDemo == Dijkstra \/ AStar \/ DemoUpdate

SpecDemo == InitDemo /\ [][NextDemo]_vars

\* ------------------------------------------------- visibility of an update
\* A caller that asks dijkstra, applies one update_traffic between two nodes
\* of the graph, and asks the same question again.
InitVis ==
  \E edges \in EdgeLists(SmallNodes, MaxVisEdges) :
    /\ nodes = SmallNodes
    /\ graph = TrafficGraph(SmallNodes, edges, EmptyDict).graph
    /\ coordinates = EmptyDict
    /\ result = NoResult
    /\ frame = NoFrame
    /\ library = NoLibrary
    /\ hist = NoHist

VisFirstQuery ==
  \E start \in nodes, end \in nodes :
    /\ library = NoLibrary
    /\ hist = NoHist
    /\ Query("dijkstra", start, end)
    /\ UNCHANGED library
    /\ hist' = [hist EXCEPT !.before = result']

VisUpdate ==
  \E u \in nodes, v \in nodes, new_weight \in Weights, direction \in Directions :
    /\ hist.before # NoResult
    /\ hist.update = NoUpdate
    /\ Update(u, v, new_weight, direction)
    /\ result' = NoResult
    /\ UNCHANGED library
    /\ hist' = [hist EXCEPT !.update = UpdateLog(u, v, new_weight, direction)]

VisSecondQuery ==
  /\ hist.update # NoUpdate
  /\ Query(hist.before.fn, hist.before.start, hist.before.end)
  /\ UNCHANGED <<hist, library>>

NextVis == VisFirstQuery \/ VisUpdate \/ VisSecondQuery

SpecVis == InitVis /\ [][NextVis]_vars

\* ------------------------------------------------- the same question twice
\* A caller that asks r1 = solver(g, s, e) and then r2 = solver(g, s, e) with
\* no mutation in between.  Each call runs one iteration of its while loop at
\* a time on its locals (frame.fr); what a finished call leaves in frame is
\* still there when the next call begins.
ReturnOf(f) ==
  [NoResult EXCEPT !.fn = f.fn, !.start = f.start_node, !.end = f.end_node,
                   !.path = f.fr.path, !.cost = f.fr.cost, !.raised = f.fr.pc = "raise"]

\* The locals a call begins with: lines 78-81 and 111-120 build every one of
\* them from the arguments.
enter(fn, start, end) ==
  [fn |-> fn, start_node |-> start, end_node |-> end,
   fr |-> IF fn = "dijkstra" THEN dijkstra_start(self, start)
                             ELSE a_star_start(self, start, end)]

\* Variant: distances is not rebuilt but kept from the call before.
Call_reuse(fn, start, end) ==
  LET fresh == enter(fn, start, end)
      kept == IF "distances" \in DOMAIN frame.fr /\ fn = "dijkstra"
                THEN [fresh EXCEPT !.fr.distances =
                        [n \in DOMAIN @ |-> IF n = start THEN 0
                                            ELSE Get(frame.fr.distances, n, Inf)]]
                ELSE fresh
  IN /\ frame.fr.pc # "loop"
     /\ frame' = kept
     /\ result' = NoResult
     /\ UNCHANGED <<nodes, graph, coordinates>>

\* Entering dijkstra or a_star.
Call(fn, start, end) ==
  /\ frame.fr.pc # "loop"
  /\ frame' = enter(fn, start, end)
  /\ result' = NoResult
  /\ UNCHANGED <<nodes, graph, coordinates>>

\* One iteration of the while loop of the call in progress; the iteration
\* that returns (or raises) hands the answer to the caller.
Iterate ==
  /\ frame.fr.pc = "loop"
  /\ LET fr2 == IF frame.fn = "dijkstra"
                  THEN dijkstra_step(self, frame.end_node, frame.fr)
                  ELSE a_star_step(self, frame.end_node, frame.fr)
     IN /\ frame' = [frame EXCEPT !.fr = fr2]
        /\ result' = IF fr2.pc = "loop" THEN result ELSE ReturnOf(frame')
  /\ UNCHANGED <<nodes, graph, coordinates>>

RunStep == Iterate /\ UNCHANGED <<hist, library>>

InitTwice ==
  \E edges \in EdgeLists(SmallNodes \cup {Unknown}, MaxTwiceEdges), coords \in CoordChoices :
    /\ nodes = SmallNodes
    /\ graph = TrafficGraph(SmallNodes, edges, coords).graph
    /\ coordinates = coords
    /\ result = NoResult
    /\ frame = NoFrame
    /\ library = NoLibrary
    /\ hist = NoHist

FirstCall ==
  \E fn \in {"dijkstra", "a_star"}, start \in nodes \cup {Unknown}, end \in nodes \cup {Unknown} :
    /\ frame = NoFrame
    /\ Call(fn, start, end)
    /\ UNCHANGED <<hist, library>>

SecondCall ==
  /\ result # NoResult
  /\ hist.before = NoResult
  /\ Call(result.fn, result.start, result.end)
  /\ UNCHANGED library
  /\ hist' = [hist EXCEPT !.before = result]

NextTwice == FirstCall \/ RunStep \/ SecondCall

SpecTwice == InitTwice /\ [][NextTwice]_vars

\* ---------------------------------------------------- one call, traced
\* A caller that builds a graph with add_edge and then asks one question,
\* whose call runs one iteration at a time while hist.trace records what each
\* iteration extracted.
\*
\* The record of the iteration about to run on frame f (its queue is not
\* empty): the tuple heappop will return, the node's recorded cost at that
\* moment (distances[node] or g_score[node]), and the branch the iteration
\* takes: "stale" (line 87-88, dijkstra only), "goal" (lines 91, 126) or
\* "expand" (the for loop of lines 94, 129).
Extracted(f) ==
  LET pq == f.fr.priority_queue
      dij == f.fn = "dijkstra"
      i == IF dij THEN heappop(pq) ELSE heappop_float(pq)
      node == pq[i][2]
      best == IF dij THEN f.fr.distances[node] ELSE f.fr.g_score[node]
  IN [node |-> node,
      key |-> IF dij THEN Num(pq[i][1]) ELSE pq[i][1],
      best |-> best,
      act |-> IF dij /\ IsStale(pq[i][1], best) THEN "stale"
              ELSE IF node = f.end_node THEN "goal"
              ELSE "expand"]

InitRun ==
  \E coords \in CoordChoices :
    /\ nodes = SmallNodes
    /\ graph = TrafficGraph(SmallNodes, <<>>, coords).graph
    /\ coordinates = coords
    /\ result = NoResult
    /\ frame = NoFrame
    /\ library = NoLibrary
    /\ hist = NoHist

RunAddEdge ==
  \E u \in nodes, v \in nodes, weight \in Weights :
    /\ frame = NoFrame
    /\ EdgeCount(add_edge(graph, u, v, weight)) <= MaxRunEdges
    /\ Add(u, v, weight)
    /\ UNCHANGED <<result, hist, library>>

RunCall ==
  \E fn \in {"dijkstra", "a_star"}, start \in nodes \cup {Unknown}, end \in nodes \cup {Unknown} :
    /\ frame = NoFrame
    /\ Call(fn, start, end)
    /\ UNCHANGED <<hist, library>>

TracedStep ==
  /\ Len(hist.trace) < MaxTrace
  /\ Iterate
  /\ UNCHANGED library
  /\ hist' = [hist EXCEPT !.trace = IF frame.fr.priority_queue = <<>> THEN @
                                    ELSE Append(@, Extracted(frame))]

NextRun == RunAddEdge \/ RunCall \/ TracedStep

SpecRun == InitRun /\ [][NextRun]_vars

\* ------------------------------------------------------ reconstruct_path
\* reconstruct_path called on its own: the predecessor maps are the dicts
\* whose keys are some of the small nodes and whose values are a small node
\* or None, the terminal a small node or an id no map holds.  given is the
\* dict as it was passed, parents the dict as the call leaves it.
ParentMaps == UNION {[S -> SmallNodes \cup {None}] : S \in SUBSET SmallNodes}

InitPath ==
  \E parents \in ParentMaps, current \in SmallNodes \cup {Unknown} :
    /\ nodes = SmallNodes
    /\ graph = TrafficGraph(SmallNodes, <<>>, EmptyDict).graph
    /\ coordinates = EmptyDict
    /\ result = NoResult
    /\ frame = [fn |-> "reconstruct_path", start_node |-> None, end_node |-> current,
                fr |-> [pc |-> "call", given |-> parents, parents |-> parents]]
    /\ library = NoLibrary
    /\ hist = NoHist

\* The call: parents is only read (parents.get), the list is new.
ReconstructPath ==
  /\ frame.fn = "reconstruct_path"
  /\ frame.fr.pc = "call"
  /\ frame' = [frame EXCEPT !.fr.pc = "return"]
  /\ result' = [NoResult EXCEPT !.fn = "reconstruct_path", !.end = frame.end_node,
                   !.path = reconstruct_path(frame.fr.parents, frame.end_node)]
  /\ UNCHANGED <<nodes, graph, coordinates, hist, library>>

NextPath == ReconstructPath

SpecPath == InitPath /\ [][NextPath]_vars

\* ------------------------------------------------------------ the Library
\* Any sequence of add_book, register_member, borrow_book and return_book
\* calls on a Library.  The isbns and member ids a caller may name include
\* one of each that the Library never holds.  uuid4 is random: the id of a
\* new Member is any of the ids, one already registered included.
Isbns == {"1", "2"}

NoIsbn == "0"

MemberIds == {"m1", "m2"}

NoMember == "nobody"

Ledger(op, failed) ==
  [op |-> op, failed |-> failed, before |-> IF failed THEN Counts(library) ELSE EmptyDict]

InitLibrary ==
  /\ nodes = {}
  /\ graph = EmptyDict
  /\ coordinates = EmptyDict
  /\ result = NoResult
  /\ frame = NoFrame
  /\ hist = NoHist
  /\ library = Library

\* library.add_book(Book(title, author, isbn, copies))
AddBook ==
  \E isbn \in Isbns, copies \in 0..MaxCopies :
    /\ Get(library.catalog, isbn, Book(isbn, 0)).total_copies + copies <= MaxTotal
    /\ library' = add_book(library, Book(isbn, copies))
    /\ hist' = [hist EXCEPT !.ledger = Ledger("add_book", FALSE)]
    /\ UNCHANGED <<nodes, graph, coordinates, result, frame>>

\* library.add_book(book) with a Book that was added before and is the
\* catalog's entry.
AddBookHeld ==
  \E isbn \in DOMAIN library.catalog :
    /\ 2 * library.catalog[isbn].total_copies <= MaxTotal
    /\ library' = add_book_held(library, isbn)
    /\ hist' = [hist EXCEPT !.ledger = Ledger("add_book", FALSE)]
    /\ UNCHANGED <<nodes, graph, coordinates, result, frame>>

\* library.register_member(Member(name))
RegisterMember ==
  \E member_id \in MemberIds :
    /\ library' = register_member(library, Member(member_id))
    /\ hist' = [hist EXCEPT !.ledger = Ledger("register_member", FALSE)]
    /\ UNCHANGED <<nodes, graph, coordinates, result, frame>>

BorrowBook ==
  \E isbn \in Isbns \cup {NoIsbn}, member_id \in MemberIds \cup {NoMember} :
    /\ library' = borrow_book(library, isbn, member_id)
    /\ hist' = [hist EXCEPT !.ledger = Ledger("borrow_book",
                                                borrow_fails(library, isbn, member_id))]
    /\ UNCHANGED <<nodes, graph, coordinates, result, frame>>

ReturnBook ==
  \E isbn \in Isbns \cup {NoIsbn}, member_id \in MemberIds \cup {NoMember} :
    /\ library' = return_book(library, isbn, member_id)
    /\ hist' = [hist EXCEPT !.ledger = Ledger("return_book",
                                                return_fails(library, isbn, member_id))]
    /\ UNCHANGED <<nodes, graph, coordinates, result, frame>>

NextLibrary == AddBook \/ AddBookHeld \/ RegisterMember \/ BorrowBook \/ ReturnBook

SpecLibrary == InitLibrary /\ [][NextLibrary]_vars

\* ------------------------------------------------- calls run to their end
\* Calls traced on the graphs of two nodes and at most MaxLiveEdges edges
\* (self-loops, two-way roads and zero-weight cycles among them), with the
\* scheduling of a sequential program: a call that can run its next
\* iteration does run it.  The coordinate maps: none, the nodes one unit
\* apart, and the nodes further apart than any road between them is long.
LiveNodes == {"A", "B"}

LiveCoords ==
  { EmptyDict,
    [n \in LiveNodes |-> IF n = "A" THEN <<0, 0>> ELSE <<1, 0>>],
    [n \in LiveNodes |-> IF n = "A" THEN <<0, 0>> ELSE <<3, 4>>] }

InitLive ==
  \E coords \in LiveCoords :
    /\ nodes = LiveNodes
    /\ graph = TrafficGraph(LiveNodes, <<>>, coords).graph
    /\ coordinates = coords
    /\ result = NoResult
    /\ frame = NoFrame
    /\ library = NoLibrary
    /\ hist = NoHist

LiveAddEdge ==
  \E u \in nodes, v \in nodes, weight \in Weights :
    /\ frame = NoFrame
    /\ EdgeCount(add_edge(graph, u, v, weight)) <= MaxLiveEdges
    /\ Add(u, v, weight)
    /\ UNCHANGED <<result, hist, library>>

LiveStep ==
  /\ Len(hist.trace) < MaxLiveTrace
  /\ TracedStep

NextLive == LiveAddEdge \/ RunCall \/ LiveStep

SpecLive == InitLive /\ [][NextLive]_vars /\ WF_vars(LiveStep)

\* ------------------------------------------------ a_star on four nodes
\* a_star(g, 'A', 'D') traced on the graphs of four nodes, where a node can
\* be reached a second time, more cheaply, after it was expanded.  The
\* coordinate maps: none (h = 0), four points on a line in node order, and
\* one that puts B on the goal and C far from it.
FourNodes == {"A", "B", "C", "D"}

FourCoords ==
  { EmptyDict,
    [n \in FourNodes |-> <<Rank(n), 0>>],
    [n \in FourNodes |-> CASE n = "A" -> <<1, 0>> [] n = "B" -> <<0, 0>>
                            [] n = "C" -> <<3, 0>> [] n = "D" -> <<0, 0>>] }

InitFour ==
  \E coords \in FourCoords :
    /\ nodes = FourNodes
    /\ graph = TrafficGraph(FourNodes, <<>>, coords).graph
    /\ coordinates = coords
    /\ result = NoResult
    /\ frame = NoFrame
    /\ library = NoLibrary
    /\ hist = NoHist

FourCall ==
  /\ frame = NoFrame
  /\ Call("a_star", "A", "D")
  /\ UNCHANGED <<hist, library>>

NextFour == RunAddEdge \/ FourCall \/ TracedStep

SpecFour == InitFour /\ [][NextFour]_vars

\* --------------------------------------------------------- the store alone
\* A caller that builds a graph and then only mutates it, with weights of
\* either sign and ids that may be no node.  hist.update logs one call of the
\* run, any call the caller chooses to end with, and the object that call
\* found; hist.negative tells whether a weight below 0 was ever handed in.
StoreWeights == {0 - 1, 0, 1}

StoreCoords == [n \in {"A", "C"} |-> IF n = "A" THEN <<0, 0>> ELSE <<0, 2>>]

StoreEdgeLists(k) ==
  UNION {[1..n -> (SmallNodes \cup {Unknown}) \X (SmallNodes \cup {Unknown}) \X StoreWeights] :
           n \in 0..k}

InitStore ==
  \E edges \in StoreEdgeLists(MaxStoreInit) :
    /\ nodes = SmallNodes
    /\ graph = TrafficGraph(SmallNodes, edges, StoreCoords).graph
    /\ coordinates = StoreCoords
    /\ result = NoResult
    /\ frame = NoFrame
    /\ library = NoLibrary
    /\ hist = [NoHist EXCEPT !.negative = \E i \in 1..Len(edges) : edges[i][3] < 0]

StoreAddEdge ==
  \E u \in nodes \cup {Unknown}, v \in nodes \cup {Unknown}, weight \in StoreWeights,
     last \in BOOLEAN :
    /\ hist.update = NoUpdate
    /\ EdgeCount(add_edge(graph, u, v, weight)) <= MaxStoreEdges
    /\ Add(u, v, weight)
    /\ UNCHANGED library
    /\ hist' = [hist EXCEPT !.update = IF last THEN CallLog("add_edge", u, v, weight, None)
                                                ELSE NoUpdate,
                            !.negative = @ \/ weight < 0]
    /\ UNCHANGED result

StoreUpdate ==
  \E u \in nodes \cup {Unknown}, v \in nodes \cup {Unknown},
     new_weight \in StoreWeights, direction \in Directions, last \in BOOLEAN :
    /\ hist.update = NoUpdate
    /\ Update(u, v, new_weight, direction)
    /\ UNCHANGED library
    /\ hist' = [hist EXCEPT !.update = IF last THEN UpdateLog(u, v, new_weight, direction)
                                                ELSE NoUpdate,
                            !.negative = @ \/ new_weight < 0]
    /\ UNCHANGED result

NextStore == StoreAddEdge \/ StoreUpdate

SpecStore == InitStore /\ [][NextStore]_vars

\* ------------------------------------------------------------ construction
\* TrafficGraph(nodes, edges, coordinates) from line 22 on: nodes,
\* coordinates and the empty adjacency are set, and the loop over the
\* argument edges (kept in the frame) is about to run.
InitCtor ==
  \E edges \in StoreEdgeLists(MaxCtorEdges) :
    /\ nodes = SmallNodes
    /\ graph = [n \in SmallNodes |-> EmptyDict]
    /\ coordinates = StoreCoords
    /\ result = NoResult
    /\ frame = [NoFrame EXCEPT !.fn = "__init__", !.fr = [pc |-> "loop", edges |-> edges]]
    /\ library = NoLibrary
    /\ hist = NoHist

\* The loop of lines 23-26, run to its end.
Construct ==
  /\ frame.fn = "__init__"
  /\ frame.fr.pc = "loop"
  /\ graph' = build(graph, frame.fr.edges, 1)
  /\ frame' = [frame EXCEPT !.fr.pc = "return"]
  /\ UNCHANGED library
  /\ hist' = [hist EXCEPT !.negative =
                 \E i \in 1..Len(frame.fr.edges) : frame.fr.edges[i][3] < 0]
  /\ UNCHANGED <<nodes, coordinates, result>>

NextCtor == Construct

SpecCtor == InitCtor /\ [][NextCtor]_vars

\* ============================================================== reference
\* node -> the least total weight of a directed path from s with at most k
\* edges (Inf when there is none).
RECURSIVE Cheapest(_, _, _)
Cheapest(g, s, k) ==
  IF k = 0 THEN [v \in DOMAIN g \cup {s} |-> IF v = s THEN 0 ELSE Inf]
  ELSE LET p == Cheapest(g, s, k - 1)
       IN [v \in DOMAIN p |->
             Min({p[v]} \cup {p[x] + g[x][v] :
                    x \in {y \in DOMAIN g : p[y] < Inf /\ v \in DOMAIN g[y]}})]

\* The minimum total weight over all directed paths from s to t.
MinCost(g, s, t) == Get(Cheapest(g, s, Cardinality(DOMAIN g)), t, Inf)

h(n, goal) == heuristic(coordinates, n, goal)

\* The heuristic never exceeds the true remaining cost to goal.
Admissible(goal) ==
  \A n \in nodes :
    MinCost(graph, n, goal) < Inf => ~NumLt(Num(MinCost(graph, n, goal)), h(n, goal))

\* h(u) <= w(u, v) + h(v) along every edge.
Consistent(goal) ==
  \A u \in DOMAIN graph : \A v \in DOMAIN graph[u] :
    ~NumLt(NumAdd(graph[u][v], h(v, goal)), h(u, goal))

IsQuery == result.fn \in {"dijkstra", "a_star"}

Unreachable == result.path = <<>> /\ result.cost = Inf

OnPath(path, u, v) == \E i \in 1..(Len(path) - 1) : path[i] = u /\ path[i + 1] = v

\* No edge leaves or enters x.
Isolated(x) ==
  /\ x \in nodes
  /\ graph[x] = EmptyDict
  /\ \A u \in DOMAIN graph : x \notin DOMAIN graph[u]

\* ================================================================= claims
\* C1: after construction and any add_edge / update_traffic calls with
\* weights >= 0, dijkstra(start, goal) with both in the node set returns the
\* minimum total weight over all directed start-to-goal paths, and returns
\* the unreachable result (no path, cost inf) exactly when there is no path.
C1_DijkstraMinimum ==
  (result.fn = "dijkstra" /\ result.start \in nodes /\ result.end \in nodes)
    => /\ result.cost = MinCost(graph, result.start, result.end)
       /\ Unreachable <=> MinCost(graph, result.start, result.end) = Inf
       /\ result.path = <<>> <=> result.cost = Inf

\* A two-edge route was returned although a dearer direct edge exists.
C1_Witness ==
  /\ result.fn = "dijkstra"
  /\ Len(result.path) = 3
  /\ result.end \in DOMAIN graph[result.start]
  /\ graph[result.start][result.end] > result.cost

\* C9: dijkstra(start, start) returns ([start], 0) whatever edges touch start.
C9_StartIsGoal ==
  (result.fn = "dijkstra" /\ result.start = result.end)
    => result.path = <<result.start>> /\ result.cost = 0 /\ ~result.raised

\* start = goal with a zero-weight self-loop and a zero-weight edge out of it.
C9_Witness ==
  /\ result.fn = "dijkstra"
  /\ result.start = result.end
  /\ result.start \in nodes
  /\ result.start \in DOMAIN graph[result.start]
  /\ graph[result.start][result.start] = 0
  /\ \E v \in DOMAIN graph[result.start] : v # result.start /\ graph[result.start][v] = 0
  /\ result.path = <<result.start>>

\* The demo's update_traffic('C', 'E', 20) has been applied.
DemoUpdated == hist.update # NoUpdate

AskedAH(fn) == result.fn = fn /\ result.start = "A" /\ result.end = "H"

\* C3: on the demo network, before any update, dijkstra(A, H) returns cost 10
\* via A, C, E, G, H.
C3_DemoBefore ==
  (AskedAH("dijkstra") /\ ~DemoUpdated)
    => result.cost = 10 /\ result.path = <<"A", "C", "E", "G", "H">>

C3_Witness == AskedAH("dijkstra") /\ ~DemoUpdated /\ result.cost = 10

C5_DemoAStarOptimal ==
  AskedAH("a_star") => result.cost = MinCost(graph, "A", "H")

\* C4: for start and goal in the graph with goal reachable, a_star returns
\* the cost dijkstra returns whenever the heuristic is admissible for that
\* goal, consistent or not.
C4_AStarEqualsDijkstra ==
  ( /\ result.fn = "a_star"
    /\ result.start \in nodes
    /\ result.end \in nodes
    /\ MinCost(graph, result.start, result.end) < Inf
    /\ Admissible(result.end) )
    => result.cost = dijkstra(self, result.start, result.end).cost

\* a_star answered over two edges under an admissible heuristic that is not
\* consistent.
C4_Witness ==
  /\ result.fn = "a_star"
  /\ result.start \in nodes
  /\ result.end \in nodes
  /\ Admissible(result.end)
  /\ ~Consistent(result.end)
  /\ Len(result.path) = 3
  /\ result.cost = dijkstra(self, result.start, result.end).cost

\* The caller asked, updated, and asked again.
VisDone == hist.before # NoResult /\ hist.update # NoUpdate /\ result # NoResult

CostDelta == result.cost - hist.before.cost

WeightDelta == hist.update.new - hist.update.old

\* C6 as stated: if the first query's path uses u -> v, then after
\* update_traffic(u, v, w2) the second query's cost differs from the first by
\* w2 minus the old weight.
C6_VisibilityAsStated ==
  (VisDone /\ OnPath(hist.before.path, hist.update.u, hist.update.v))
    => CostDelta = WeightDelta

\* C6 amended: if the first dijkstra query's path uses u -> v, then after
\* update_traffic(u, v, w2) the edge carries w2 and the second query returns
\* the minimum over the graph as updated; the two costs differ by w2 minus
\* the old weight when u -> v lies on the returned path of both queries.
C6_Visibility ==
  (VisDone /\ OnPath(hist.before.path, hist.update.u, hist.update.v))
    => /\ hist.update.existed
       /\ graph[hist.update.u][hist.update.v] = hist.update.new
       /\ result.cost = MinCost(graph, result.start, result.end)
       /\ OnPath(result.path, hist.update.u, hist.update.v) => CostDelta = WeightDelta

\* The weight of an edge on the path of both queries was changed.
C6_Witness ==
  /\ VisDone
  /\ OnPath(hist.before.path, hist.update.u, hist.update.v)
  /\ OnPath(result.path, hist.update.u, hist.update.v)
  /\ WeightDelta # 0
  /\ CostDelta = WeightDelta

\* C7: for a node without outgoing and incoming edges, every query from it
\* or to it, by either solver and for every other endpoint, returns no path
\* and cost inf.
C7_IsolatedUnreachable ==
  ( /\ IsQuery
    /\ result.start # result.end
    /\ Isolated(result.start) \/ Isolated(result.end) )
    => Unreachable /\ ~result.raised

\* A query to an isolated node from a node that has edges.
C7_Witness ==
  /\ IsQuery
  /\ result.start \in nodes
  /\ Isolated(result.end)
  /\ graph[result.start] # EmptyDict
  /\ Unreachable

\* C8: a query whose start or goal is no node of the graph returns no path
\* and cost inf, for every such start and goal, without raising.
C8_UnknownUnreachable ==
  (IsQuery /\ (result.start \notin nodes \/ result.end \notin nodes))
    => Unreachable /\ ~result.raised

\* C10: every returned path is contiguous: each consecutive pair (u, v) of it
\* is an edge of the adjacency, with a finite weight.
C10_Contiguous ==
  IsQuery =>
    \A i \in 1..(Len(result.path) - 1) :
      /\ result.path[i] \in DOMAIN graph
      /\ result.path[i + 1] \in DOMAIN graph[result.path[i]]
      /\ graph[result.path[i]][result.path[i + 1]] < Inf

\* A returned path of two edges neither of which has a reverse edge.
C10_Witness ==
  /\ IsQuery
  /\ Len(result.path) = 3
  /\ result.path[1] \notin DOMAIN graph[result.path[2]]
  /\ result.path[2] \notin DOMAIN graph[result.path[3]]

\* ------------------------------------------------------------------- C11
\* Both calls have returned.
AskedTwice == hist.before # NoResult /\ result # NoResult

\* C11: the same solver called twice with the same start and goal, with no
\* mutation in between, returns the same path and the same cost (and raises
\* alike) both times.
C11_Idempotent ==
  AskedTwice =>
    /\ result.path = hist.before.path
    /\ result.cost = hist.before.cost
    /\ result.raised = hist.before.raised

\* Both calls returned a route of two edges, after locals of the first call
\* were left behind.
C11_Witness ==
  /\ AskedTwice
  /\ Len(result.path) = 3
  /\ Len(hist.before.path) = 3
  /\ result.cost > 0

\* ------------------------------------------------------------ store claims
\* The ids a call may name.
Ids == SmallNodes \cup {Unknown}

\* The call hist.update logs found the object Before.
Before == hist.update.store

HasEdge(g, a, b) == b \in DOMAIN Get(g, a, EmptyDict)

\* The directed entry a -> b is now as the logged call found it.
SameEntry(a, b) ==
  /\ HasEdge(graph, a, b) <=> HasEdge(Before.graph, a, b)
  /\ HasEdge(graph, a, b) => graph[a][b] = Before.graph[a][b]

\* Node set, coordinates and the adjacency's keys are as the logged call
\* found them.
SameFrame ==
  /\ nodes = Before.nodes
  /\ coordinates = Before.coordinates
  /\ DOMAIN graph = DOMAIN Before.graph

\* The set of directed (from, to) pairs of g.
EdgeSet(g) == {e \in (DOMAIN g) \X Ids : HasEdge(g, e[1], e[2])}

\* ------------------------------------------------------------------- C12
\* C12: add_edge(from, to, weight) with both endpoints in the node set sets
\* exactly the directed entry from -> to to weight (inserting or overwriting)
\* and changes no other entry (not to -> from), nor the node set, nor the
\* coordinates; with an endpoint that is no node it leaves the whole object
\* as it was.
C12_AddEdge ==
  hist.update.op = "add_edge" =>
    LET u == hist.update.u
        v == hist.update.v
    IN /\ SameFrame
       /\ IF u \in Before.nodes /\ v \in Before.nodes
            THEN /\ HasEdge(graph, u, v)
                 /\ graph[u][v] = hist.update.new
                 /\ \A a \in Ids, b \in Ids : <<a, b>> # <<u, v>> => SameEntry(a, b)
            ELSE graph = Before.graph

\* add_edge overwrote from -> to with another weight while to -> from exists
\* and keeps a weight that differs from the new one.
C12_Witness ==
  /\ hist.update.op = "add_edge"
  /\ hist.update.u \in nodes /\ hist.update.v \in nodes
  /\ hist.update.u # hist.update.v
  /\ hist.update.existed
  /\ hist.update.old # hist.update.new
  /\ HasEdge(graph, hist.update.v, hist.update.u)
  /\ graph[hist.update.v][hist.update.u] # hist.update.new

\* ------------------------------------------------------------------- C13
\* C13: update_traffic(from, to, w, direction) on an existing entry
\* from -> to sets it to w; with 'both' it also sets to -> from to w if that
\* entry exists (and does not create it); with 'forward' the entry to -> from
\* (another entry than from -> to) is as before; every other entry, the node
\* set and the coordinates are unchanged.
C13_UpdateWeight ==
  (hist.update.op = "update_traffic" /\ hist.update.existed) =>
    LET u == hist.update.u
        v == hist.update.v
        reverse == HasEdge(Before.graph, v, u)
    IN /\ SameFrame
       /\ HasEdge(graph, u, v)
       /\ graph[u][v] = hist.update.new
       /\ HasEdge(graph, v, u) <=> reverse
       /\ (hist.update.direction = "both" /\ reverse) => graph[v][u] = hist.update.new
       /\ (hist.update.direction = "forward" /\ u # v) => SameEntry(v, u)
       /\ \A a \in Ids, b \in Ids : <<a, b>> \notin {<<u, v>>, <<v, u>>} => SameEntry(a, b)

\* A 'forward' update changed from -> to and left the existing to -> from at
\* a weight that differs from the new one.
C13_Witness ==
  /\ hist.update.op = "update_traffic"
  /\ hist.update.existed
  /\ hist.update.direction = "forward"
  /\ hist.update.u # hist.update.v
  /\ hist.update.old # hist.update.new
  /\ HasEdge(graph, hist.update.v, hist.update.u)
  /\ graph[hist.update.v][hist.update.u] # hist.update.new

\* ------------------------------------------------------------------- C14
\* C14: update_traffic for an entry from -> to that does not exist (the
\* endpoints may be no nodes) leaves the whole adjacency as it was, also with
\* direction 'both' when to -> from exists.
C14_NoPartialMutation ==
  (hist.update.op = "update_traffic" /\ ~hist.update.existed) => graph = Before.graph

\* ------------------------------------------------------------------- C15
\* C15: update_traffic never creates an entry: the set of directed
\* (from, to) pairs after the call is the set before it, for all arguments.
C15_NoEdgeCreated ==
  hist.update.op = "update_traffic" => EdgeSet(graph) = EdgeSet(Before.graph)

\* A 'both' update between two nodes whose entry from -> to does not exist,
\* and still does not.
C15_Witness ==
  /\ hist.update.op = "update_traffic"
  /\ ~hist.update.existed
  /\ hist.update.direction = "both"
  /\ hist.update.u \in nodes /\ hist.update.v \in nodes
  /\ hist.update.u # hist.update.v
  /\ ~HasEdge(graph, hist.update.u, hist.update.v)

\* ------------------------------------------------------------------- C16
\* C16: in every reachable state of the store the adjacency has entries only
\* for nodes of the node set: every key and every neighbor key is a node.
C16_OnlyNodes ==
  /\ DOMAIN graph \subseteq nodes
  /\ \A u \in DOMAIN graph : DOMAIN graph[u] \subseteq nodes

\* add_edge was called from a node to an id that is no node.
C16_Witness ==
  /\ hist.update.op = "add_edge"
  /\ hist.update.u \in nodes
  /\ hist.update.v = Unknown
  /\ EdgeSet(graph) # {}

\* ------------------------------------------------------------------- C17
AllNonNegative == \A e \in EdgeSet(graph) : graph[e[1]][e[2]] >= 0

\* C17 as stated: all edge weights are >= 0 in every reachable state,
\* whatever weights were handed to the constructor, add_edge and
\* update_traffic.
C17_NonNegativeAsStated == AllNonNegative

\* C17: all edge weights are >= 0 in every reachable state, provided no
\* weight below 0 was handed to the constructor, add_edge or update_traffic.
C17_NonNegative == ~hist.negative => AllNonNegative

\* update_traffic stored a positive weight, and no weight given so far was
\* below 0.
C17_Witness ==
  /\ ~hist.negative
  /\ hist.update.op = "update_traffic"
  /\ hist.update.existed
  /\ hist.update.old = 0
  /\ graph[hist.update.u][hist.update.v] = 1

\* ------------------------------------------------------------------- C18
\* The constructor has run its loop over the edges it was given.
Constructed == frame.fn = "__init__" /\ frame.fr.pc = "return"

\* C18: after TrafficGraph(nodes, edges, coordinates), for every edge list
\* (repeated pairs, with other weights or the opposite orientation,
\* included): u -> v exists iff v -> u exists, both with the same weight; a
\* listed edge between nodes exists in both directions; a listed edge with an
\* endpoint that is no node exists in neither.
C18_BothDirections ==
  Constructed =>
    LET edges == frame.fr.edges
    IN /\ \A u \in Ids, v \in Ids :
            /\ HasEdge(graph, u, v) <=> HasEdge(graph, v, u)
            /\ HasEdge(graph, u, v) => graph[u][v] = graph[v][u]
       /\ \A i \in 1..Len(edges) :
            LET u == edges[i][1]
                v == edges[i][2]
            IN IF u \in nodes /\ v \in nodes
                 THEN HasEdge(graph, u, v) /\ HasEdge(graph, v, u)
                 ELSE ~HasEdge(graph, u, v) /\ ~HasEdge(graph, v, u)

\* The list named a pair of nodes twice, the second time the other way round
\* and with another weight, which both directions now carry.
C18_Witness ==
  /\ Constructed
  /\ Len(frame.fr.edges) = 2
  /\ LET e1 == frame.fr.edges[1]
         e2 == frame.fr.edges[2]
     IN /\ e1[1] \in nodes /\ e1[2] \in nodes /\ e1[1] # e1[2]
        /\ e2[1] = e1[2] /\ e2[2] = e1[1]
        /\ e1[3] # e2[3]
        /\ graph[e1[1]][e1[2]] = e2[3]
        /\ graph[e1[2]][e1[1]] = e2[3]

\* ------------------------------------------------------------------- C19
\* C19: get_neighbors, heuristic, dijkstra and a_star, with any arguments
\* (ids that are no nodes included), leave the node set, the adjacency and
\* the coordinates exactly as they were.  In Spec the caller's result changes
\* in the steps of these four calls and in no other.
C19_ReadOnly ==
  [][result' # result => (nodes' = nodes /\ graph' = graph /\ coordinates' = coordinates)]_vars

\* A solver was asked to start from an id that is no node, and the
\* adjacency still has no key for it.
C19_Witness ==
  /\ IsQuery
  /\ result.start = Unknown
  /\ Unknown \notin DOMAIN graph
  /\ EdgeSet(graph) # {}

\* ------------------------------------------------------------------- C20
\* The sum of the current weights along p from position k on (Inf for a
\* step that is no entry of the adjacency).
RECURSIVE PathWeight(_, _)
PathWeight(p, k) ==
  IF k >= Len(p) THEN 0
  ELSE Get(Get(graph, p[k], EmptyDict), p[k + 1], Inf) + PathWeight(p, k + 1)

\* C20: a path returned by dijkstra or a_star (weights >= 0, any coordinates)
\* begins with start, ends with goal, repeats no node, and the current
\* weights along it add up to the returned cost.
C20_PathHasCost ==
  (IsQuery /\ result.path # <<>>) =>
    LET p == result.path
    IN /\ p[1] = result.start
       /\ p[Len(p)] = result.end
       /\ \A i \in 1..Len(p), j \in 1..Len(p) : p[i] = p[j] => i = j
       /\ PathWeight(p, 1) = result.cost

\* a_star returned a route of two edges of positive total cost, under
\* coordinates that the graph does not respect (the heuristic is not
\* consistent).
C20_Witness ==
  /\ result.fn = "a_star"
  /\ Len(result.path) = 3
  /\ result.cost > 0
  /\ ~Consistent(result.end)

\* ------------------------------------------------------------------- C21
\* The traced call has returned a path.
Returned == result # NoResult /\ result.path # <<>>

\* C21: during a dijkstra call (weights >= 0) the distances of the entries
\* extracted from the priority queue never decrease; the goal is extracted
\* once, as the last entry, with a distance that is its recorded distance,
\* the returned cost and the minimum over all paths.
C21_MonotoneExtraction ==
  frame.fn = "dijkstra" =>
    LET t == hist.trace
    IN /\ \A i \in 1..Len(t), j \in 1..Len(t) : i < j => ~NumLt(t[j].key, t[i].key)
       /\ Returned =>
            /\ t[Len(t)].node = result.end
            /\ t[Len(t)].act = "goal"
            /\ \A i \in 1..(Len(t) - 1) : t[i].node # result.end
            /\ t[Len(t)].key = Num(result.cost)
            /\ t[Len(t)].best = result.cost
            /\ result.cost = MinCost(graph, result.start, result.end)

\* dijkstra extracted at least three entries of growing distance and then
\* the goal.
C21_Witness ==
  /\ frame.fn = "dijkstra"
  /\ Returned
  /\ Len(hist.trace) >= 3
  /\ NumLt(hist.trace[1].key, hist.trace[2].key)
  /\ NumLt(hist.trace[2].key, hist.trace[3].key)

\* ------------------------------------------------------------------- C22
\* C22: in a dijkstra call (weights >= 0) an extracted entry is discarded
\* exactly when its distance is greater than the recorded distance of its
\* node, and then an entry of that node was expanded before; no node is
\* expanded twice, though the queue may have held several entries for it.
C22_LazyDeletion ==
  frame.fn = "dijkstra" =>
    LET t == hist.trace
    IN /\ \A i \in 1..Len(t) :
            /\ t[i].act = "stale" <=> NumLt(Num(t[i].best), t[i].key)
            /\ t[i].act = "stale" =>
                 \E k \in 1..(i - 1) : t[k].node = t[i].node /\ t[k].act = "expand"
       /\ \A i \in 1..Len(t), j \in 1..Len(t) :
            (i # j /\ t[i].act = "expand" /\ t[j].act = "expand") => t[i].node # t[j].node

\* An entry was discarded as stale: the queue held two entries for its node.
C22_Witness ==
  /\ frame.fn = "dijkstra"
  /\ \E i \in 1..Len(hist.trace) : hist.trace[i].act = "stale"

\* ------------------------------------------------------------------- C23
\* Every node the traced call expanded still has the g_score it had when it
\* was expanded.
NeverLowered ==
  \A i \in 1..Len(hist.trace) :
    hist.trace[i].act = "expand" =>
      frame.fr.g_score[hist.trace[i].node] = hist.trace[i].best

\* C23: in an a_star call with weights >= 0 and a consistent heuristic
\* (h(u) <= w(u, v) + h(v) on every edge; h(goal) = 0 by construction), the
\* g_score of a node is never lowered after the node was expanded.
C23_NoReopening ==
  (frame.fn = "a_star" /\ Consistent(frame.end_node)) => NeverLowered

\* a_star lowered the g_score of a node it had expanded (the heuristic is
\* not consistent then).
Reopened == frame.fn = "a_star" /\ ~NeverLowered

\* a_star expanded two nodes under a consistent heuristic that is not zero
\* at the start, and returned a path.
C23_Witness ==
  /\ frame.fn = "a_star"
  /\ Consistent(frame.end_node)
  /\ NumLt(Num(0), h(frame.start_node, frame.end_node))
  /\ Returned
  /\ Len(hist.trace) >= 3
  /\ hist.trace[1].act = "expand"
  /\ hist.trace[2].act = "expand"

\* ------------------------------------------------------------------- C24
\* A call is inside its while loop.
Running == frame.fr.pc = "loop"

\* The call has returned: at the goal, or with (None, inf) once the queue
\* was empty.
Finished == frame.fr.pc = "return" /\ result = ReturnOf(frame)

\* C24: every dijkstra and a_star call on a finite graph with weights >= 0
\* returns, for every start and goal and every coordinate map.
C24_Terminates == Running ~> Finished

\* a_star returned (None, inf) after its queue ran empty, having extracted
\* both nodes of a graph that holds a cycle.
C24_Witness ==
  /\ frame.fn = "a_star"
  /\ Finished
  /\ result.path = <<>>
  /\ result.cost = Inf
  /\ Len(hist.trace) >= 2
  /\ EdgeCount(graph) = 2
  /\ \A u \in nodes : graph[u] # EmptyDict

\* ------------------------------------------------------------------- C25
\* The k-th predecessor of n in the map (None once the chain has ended).
RECURSIVE Up(_, _, _)
Up(parents, n, k) ==
  IF k = 0 \/ n = None THEN n ELSE Up(parents, Get(parents, n, None), k - 1)

\* No node of the map is its own ancestor.
Acyclic(parents) ==
  \A n \in DOMAIN parents : \A k \in 1..Cardinality(DOMAIN parents) : Up(parents, n, k) # n

Reconstructed == frame.fn = "reconstruct_path" /\ frame.fr.pc = "return"

\* C25: for an acyclic predecessor map, reconstruct_path(parents, terminal)
\* returns a list that ends with terminal, begins with a node that has no
\* predecessor, in which each element is the predecessor of the next, and
\* leaves the map as it was.
C25_ReconstructPath ==
  (Reconstructed /\ Acyclic(frame.fr.given)) =>
    LET path == result.path
        parents == frame.fr.given
    IN /\ path # <<>>
       /\ path[Len(path)] = frame.end_node
       /\ Get(parents, path[1], None) = None
       /\ \A i \in 1..(Len(path) - 1) : Get(parents, path[i + 1], None) = path[i]
       /\ frame.fr.parents = parents

\* A chain of three nodes was followed back: the root maps to None, and the
\* list is root, middle, terminal.
C25_Witness ==
  /\ Reconstructed
  /\ Acyclic(frame.fr.given)
  /\ Len(result.path) = 3
  /\ result.path[1] \in DOMAIN frame.fr.given
  /\ result.path[3] = frame.end_node

\* ------------------------------------------------------------------- C26
\* How often isbn occurs in the borrowed_books lists of the members of lib.
Occurrences(lib, isbn) ==
  Cardinality({p \in UNION {{<<m, i>> : i \in 1..Len(lib.members[m].borrowed_books)} :
                                m \in DOMAIN lib.members} :
                 lib.members[p[1]].borrowed_books[p[2]] = isbn})

\* C26: after any sequence of add_book, register_member, borrow_book and
\* return_book calls every book has 0 <= available_copies <= total_copies
\* and total_copies - available_copies copies in the members'
\* borrowed_books; a borrow or return that failed changed no count.
C26_LedgerConserved ==
  /\ \A isbn \in DOMAIN library.catalog :
       LET book == library.catalog[isbn]
       IN /\ 0 <= book.available_copies
          /\ book.available_copies <= book.total_copies
          /\ book.total_copies - book.available_copies = Occurrences(library, isbn)
  /\ hist.ledger.failed => Counts(library) = hist.ledger.before

====
